---------------------------- MODULE Spec2Model ----------------------------
(***************************************************************************)
(* A model of the relayr hub: the Exchange (relay registry, group          *)
(* registry, dispatch) and the websocket transport (connection table,      *)
(* event loop, read and write duties).                                     *)
(*                                                                         *)
(* Go slices are modelled as in the runtime: a header (backing array,      *)
(* length) over a heap of backing arrays whose length is the capacity, so  *)
(* that two holders of one backing array see each other's writes.          *)
(***************************************************************************)
EXTENDS Integers, Sequences, FiniteSets, TLC

(* ------------------------------ bounds -------------------------------- *)
\* negotiate calls (client records ever created)
MaxClients == 2
\* websocket connection objects ever created by upgradeWebSocket
MaxConns == 2
\* concurrent callers of the Exchange's operations
MaxTasks == 2
\* backing arrays alive at one time
MaxArrays == 6
\* capacity of a connection's out channel (10*1024 in the program)
MaxQueue == 2
\* envelopes ever enqueued
MaxSends == 3
\* entries of a group's slice
MaxGroupLen == 2
\* relay definitions ever registered
MaxRelays == 2
\* server calls ever dispatched
MaxDispatch == 2
\* read duties between the lookup of the relay and the end of their message
MaxReading == 1
\* keep-alive pings written to one socket
MaxPings == 1

(* --------------------------- values ----------------------------------- *)
\* the empty connection id ""
EmptyID == 0
\* a nil *client
NilClient == -1
\* a nil *connection / absent table entry
NilConn == 0
\* a frame written to a socket that is no envelope: a keep-alive ping
\* (websocket.PingMessage); an envelope is written as its rank, 1 or more
Ping == 0
\* a connection id no negotiate ever returned (the peer supplies the id)
BogusID == MaxClients + 1

ClientIDs == 1..MaxClients
ConnectionIDs == ClientIDs \cup {BogusID}
Conns == 1..MaxConns
Tasks == 1..MaxTasks
ArrIds == 1..MaxArrays
GroupNames == {"Global", "room1"}

\* e.transports, NewExchange: the two registered transports; any other key
\* of the map yields the nil Transport
transports(t) == IF t \in {"websocket", "longpoll"} THEN t ELSE "nil"
TransportPrefs == {"websocket", "longpoll", ""}

VARIABLES
    verbosity,     \* e.verbosity: the log level NewExchange was given
    relays,        \* e.relays: sequence of relay definitions
    groups,        \* e.groups: group name -> slice header [arr, len]
    heap,          \* backing arrays of the group slices
    transportOf,   \* client record (by ConnectionID) -> its transport
    mapLock,       \* e.mapLock: 0 or the task holding it
    nextId,        \* generateConnectionID: next fresh connection id
    connections,   \* webSocketTransport.connections: id -> connection
    conn,          \* the connection objects and their goroutines
    listen,        \* the event loop: pc and locals of its current event
    task,          \* callers of the Exchange's operations: pc and locals
    dispatched,    \* the callRelayMethod calls so far and what each did
    nextSeq,       \* envelopes enqueued so far
    fault,         \* the last Go panic raised, "none" if none
    crashed        \* an unrecovered panic ended the process

vars == <<verbosity, relays, groups, heap, transportOf, mapLock, nextId, connections,
          conn, listen, task, dispatched, nextSeq, fault, crashed>>

(* ------------------------- slices and the heap ------------------------ *)
NilSlice == [arr |-> 0, len |-> 0]

\* cap(s)
Cap(h, a) == IF a = 0 THEN 0 ELSE Len(h[a])

\* e.groups[g]: the zero value (a nil slice) for an absent key
Lookup(gs, g) == IF g \in DOMAIN gs THEN gs[g] ELSE NilSlice

\* the elements s[0..len-1] of a slice
Elems(h, s) == [k \in 1..s.len |-> h[s.arr][k]]

\* the members of a group: the connection ids of its non-nil entries
Members(gs, h, g) ==
    {Elems(h, Lookup(gs, g))[k] : k \in 1..Lookup(gs, g).len} \ {NilClient}

\* runtime growslice for a one-element append to a full slice of pointers
growCap(oldCap) == IF oldCap = 0 THEN 1 ELSE 2 * oldCap

\* the lowest free backing array
FreeArr(h) == CHOOSE a \in ArrIds : h[a] = <<>> /\ \A b \in ArrIds : h[b] = <<>> => a <= b

\* the map after e.groups[g] = s, and after the delete of an emptied group
store(gs, g, s) == [x \in DOMAIN gs \cup {g} |-> IF x = g THEN s ELSE gs[x]]
delete(gs, g) == [x \in DOMAIN gs \ {g} |-> gs[x]]
\* make(map[string][]*client)
EmptyMap == [x \in {} |-> NilSlice]

(* ------------------------------ tasks --------------------------------- *)
\* A caller of the Exchange's operations: the operation it is in (op), its
\* position (pc) and its locals.  s: the slice header it has read from
\* e.groups[g]; gl: the header getClientByConnectionID has read from
\* e.groups["Global"]; k: the position of a range over a slice; i: the index
\* getClientIndexInGroup returned; buf: cells loaded and not yet stored (a
\* copy in progress); c: a *client; o: a *connection; todo, seen: the state
\* of a range over the map e.groups (the keys it has yet to produce, those
\* it has produced).
IdleTask == [op |-> "idle", pc |-> "idle", g |-> "Global", id |-> EmptyID,
             s |-> NilSlice, gl |-> NilSlice, ord |-> "", i |-> 0, k |-> 0,
             buf |-> <<>>, c |-> NilClient, o |-> NilConn, todo |-> {}, seen |-> {},
             single |-> FALSE, called |-> <<>>, sent |-> <<>>,
             members0 |-> {}, open0 |-> {}, stayed |-> {}]

\* The event loop: its position, the connection and id of the event it
\* handles and, in removeFromAllGroups, the state of the range over the map
\* (todo: the keys the range has yet to produce; seen: those it has
\* produced) and removeFromGroupByID's locals
IdleListen == [pc |-> "idle", c |-> NilConn, id |-> EmptyID, todo |-> {}, seen |-> {},
               g |-> "Global", s |-> NilSlice, i |-> 0, k |-> 0, buf |-> <<>>]

\* a body that is no JSON: json.Unmarshal leaves the envelope at its zero
\* value
BadJSON == [ok |-> FALSE, S |-> FALSE, R |-> "", M |-> "", A |-> <<>>, C |-> EmptyID]

\* a nil *Relay
NilRelay == [Name |-> "", ConnectionID |-> EmptyID, nil |-> TRUE]

\* a connection: its id, its read duty (pc; between the lookup of the relay
\* and the end of the message the envelope msg, the handle relay, and in a
\* re-delivery the connection `to` it found in the table), its socket (open
\* or not, and the frames written to it), its out channel (the envelopes
\* queued, each with its rank enq in the enqueue order, and whether the
\* channel is closed), its write duty (wr, and cur: the rank of the envelope
\* it has received and not yet written) and its keep-alive duty (ka, and
\* the pings it has written)
NoConn == [id |-> EmptyID, pc |-> "none", wsOpen |-> FALSE, out |-> <<>>,
           closed |-> FALSE, wr |-> "none", cur |-> 0, enq |-> 0, written |-> <<>>,
           ka |-> "none", pings |-> 0,
           to |-> NilConn, msg |-> BadJSON, relay |-> NilRelay]

\* a registry operation is in progress (a task's, or the event loop's cleanup)
InFlight == {t \in Tasks : task[t].pc \notin {"idle", "done"}}
Busy == InFlight # {} \/ listen.pc # "idle"

\* The heap is kept garbage-collected and its arrays named in the order in
\* which the slice headers refer to them (the groups in GroupOrder, the
\* tasks, the event loop): an array's name carries no meaning in the program.
GroupOrder == <<"Global", "room1">>

Refs(gs, ts, l) ==
    [k \in 1..Len(GroupOrder) |-> Lookup(gs, GroupOrder[k]).arr]
        \o [t \in 1..MaxTasks |-> ts[t].s.arr]
        \o [t \in 1..MaxTasks |-> ts[t].gl.arr]
        \o <<l.s.arr>>

\* the arrays referred to, each once, in the order of their first reference
RECURSIVE Distinct(_, _)
Distinct(refs, seen) ==
    IF refs = <<>> THEN seen
    ELSE IF Head(refs) = 0 \/ \E k \in 1..Len(seen) : seen[k] = Head(refs)
         THEN Distinct(Tail(refs), seen)
         ELSE Distinct(Tail(refs), Append(seen, Head(refs)))

\* a header under the new names
Rehead(d, s) ==
    IF s.arr = 0 THEN s
    ELSE [arr |-> CHOOSE k \in 1..Len(d) : d[k] = s.arr, len |-> s.len]

\* each broadcast keeps the members of its group and the clients with an open
\* connection at its start (members0, open0), and while in progress the set
\* of clients that have been members at every moment since (stayed)
Track(ts, gs, h) ==
    [t \in Tasks |->
        IF ts[t].op = "callGroup" /\ ts[t].pc # "done"
        THEN [ts[t] EXCEPT !.stayed = @ \cap Members(gs, h, ts[t].g)]
        ELSE ts[t]]

\* A range over the map e.groups (removeFromAllGroups in the event loop,
\* the log line of callGroupMethod in a task): an entry deleted before the
\* range reaches it is not produced, and one created during the range (a
\* key deleted and stored again is such a one) may be produced or skipped.
Ranged(l, gs) == [l EXCEPT !.todo = @ \cap DOMAIN gs, !.seen = @ \cap DOMAIN gs]

\* a panic in a goroutine nothing recovers ends the process
Panic(msg) ==
    /\ fault' = msg
    /\ crashed' = TRUE

NoPanic == UNCHANGED <<fault, crashed>>

\* what every registry step writes: the map, the heap, the tasks (tracked)
\* and the event loop
Commit(gs, h, ts, l) ==
    LET d == Distinct(Refs(gs, ts, l), <<>>)
        tracked == [t \in Tasks |-> Ranged(Track(ts, gs, h)[t], gs)]
        lr == Ranged(l, gs)
    IN IF d = [k \in 1..Len(d) |-> k]
       THEN /\ groups' = gs
            /\ task' = tracked
            /\ listen' = lr
            /\ heap' = IF \A n \in ArrIds : n > Len(d) => h[n] = <<>> THEN h
                       ELSE [n \in ArrIds |-> IF n <= Len(d) THEN h[n] ELSE <<>>]
       ELSE /\ groups' = [g \in DOMAIN gs |-> Rehead(d, gs[g])]
            /\ task' = [t \in Tasks |-> [tracked[t] EXCEPT !.s = Rehead(d, @),
                                                           !.gl = Rehead(d, @)]]
            /\ listen' = [lr EXCEPT !.s = Rehead(d, @)]
            /\ heap' = [n \in ArrIds |-> IF n <= Len(d) THEN h[d[n]] ELSE <<>>]

\* The goroutines that read and write e.groups: the tasks and the event loop
Loop == 0
Agents == Tasks \cup {Loop}

\* the position and locals of a goroutine
Local(a) == IF a = Loop THEN listen ELSE task[a]

\* a registry step of goroutine a that leaves it with the locals L
Put(gs, h, a, L) ==
    IF a = Loop THEN Commit(gs, h, task, L)
    ELSE Commit(gs, h, [task EXCEPT ![a] = L], listen)

\* what a step of the group registry leaves alone
Registry ==
    UNCHANGED <<verbosity, relays, transportOf, mapLock, nextId, connections, conn,
                dispatched, nextSeq>>

(* ----------------------- the Exchange's operations -------------------- *)
\* A caller may begin an operation at any time; under the serial driver it
\* begins only when no registry operation is in progress.
MayBegin(t, serial) ==
    /\ ~crashed
    /\ task[t].pc = "idle"
    /\ serial => ~Busy

\* e.groups is a Go map that the tasks and the event loop read and write
\* with no common lock (only addClient runs under e.mapLock, which no other
\* operation takes).  A goroutine at "store" or "drop" is inside a write of
\* the map (an assignment, a delete); an access by another goroutine that
\* falls into the write either goes through or is stopped by the runtime's
\* check: "fatal error: concurrent map read and map write" for a read,
\* "fatal error: concurrent map writes" for a write, "fatal error:
\* concurrent map iteration and map write" for a step of a range, the
\* range statement included (an assignment into the empty map counts its
\* entry while the map is marked as being written).  A delete on an empty
\* map returns before it marks the map.
Writing(a) ==
    \/ Local(a).pc = "store"
    \/ Local(a).pc = "drop" /\ DOMAIN groups # {}
GroupsRace(a) == \E b \in Agents \ {a} : Writing(b)

ReadFatal == "concurrent map read and map write"
WriteFatal == "concurrent map writes"
IterFatal == "concurrent map iteration and map write"

\* goroutine a's access of e.groups, made with the locals L, is stopped by
\* the runtime
MapFatal(a, L, msg) ==
    /\ GroupsRace(a)
    /\ Panic(msg)
    /\ Put(groups, heap, a, [L EXCEPT !.pc = "panic"])

\* goroutine a is at the range statement of a range over the map e.groups
AtRange(a) == IF a = Loop THEN listen.pc = "range" ELSE task[a].pc = "logmap"

\* the keys a range over the map has yet to produce, and those it has
\* produced: at the range statement the keys of the map as it is, and none
ToDo(a) == IF AtRange(a) THEN DOMAIN groups ELSE Local(a).todo
Seen(a) == IF AtRange(a) THEN {} ELSE Local(a).seen

\* append(s, c) of the locals L, one access of the heap at a time: in place
\* when the capacity allows (one cell written); else the cells s[0..len-1]
\* are loaded one by one (runtime growslice) and the new array is made of
\* them, c and nil up to its capacity.  The old array is left as it is.
\* Result [heap, L], L.s the slice appended to once L.pc is "store".
append(h, L) ==
    LET s == L.s
    IN IF L.pc = "append" /\ s.len < Cap(h, s.arr)
       THEN [heap |-> [h EXCEPT ![s.arr][s.len + 1] = L.c],
             L |-> [L EXCEPT !.pc = "store", !.s = [arr |-> s.arr, len |-> s.len + 1]]]
       ELSE LET b == IF s.len = 0 THEN <<>> ELSE Append(L.buf, h[s.arr][L.k + 1])
            IN IF Len(b) < s.len
               THEN [heap |-> h,
                     L |-> [L EXCEPT !.pc = "copy", !.buf = b, !.k = @ + 1]]
               ELSE LET a == FreeArr(h)
                        n == growCap(Cap(h, s.arr))
                    IN [heap |-> [h EXCEPT ![a] =
                                     [j \in 1..n |-> IF j <= s.len THEN b[j]
                                                     ELSE IF j = s.len + 1 THEN L.c
                                                     ELSE NilClient]],
                        L |-> [L EXCEPT !.pc = "store", !.buf = <<>>, !.k = 0,
                                        !.s = [arr |-> a, len |-> s.len + 1]]]

\* Exchange.negotiateConnection up to addClient's read of e.groups: takes
\* e.mapLock, generates the id, builds the client record
negotiateConnection(t, pref, serial) ==
    /\ MayBegin(t, serial)
    /\ mapLock = 0
    /\ nextId <= MaxClients
    /\ mapLock' = t
    /\ nextId' = nextId + 1
    /\ transportOf' = [transportOf EXCEPT ![nextId] = transports(pref)]
    /\ Commit(groups, heap,
              [task EXCEPT ![t] = [IdleTask EXCEPT !.op = "negotiate", !.pc = "read",
                                                   !.id = nextId, !.c = nextId]],
              listen)
    /\ NoPanic
    /\ UNCHANGED <<verbosity, relays, connections, conn, dispatched, nextSeq>>

\* Exchange.addClient: the read of e.groups["Global"], the first operand of
\* its append
addClientRead(t) ==
    /\ ~crashed
    /\ task[t].op = "negotiate" /\ task[t].pc = "read"
    /\ \/ /\ Put(groups, heap, t,
                 [task[t] EXCEPT !.pc = "append", !.s = Lookup(groups, "Global")])
          /\ NoPanic
       \/ MapFatal(t, task[t], ReadFatal)
    /\ Registry

\* Exchange.addClient: append(e.groups["Global"], client), one cell at a time
addClient(t) ==
    /\ ~crashed
    /\ task[t].op = "negotiate" /\ task[t].pc \in {"append", "copy"}
    /\ LET r == append(heap, task[t])
       IN Put(groups, r.heap, t, r.L)
    /\ NoPanic
    /\ Registry

\* Exchange.addClient: e.groups["Global"] = the slice appended to
addClientStore(t) ==
    /\ ~crashed
    /\ task[t].op = "negotiate" /\ task[t].pc = "store"
    /\ \/ /\ Put(store(groups, "Global", task[t].s), heap, t,
                 [task[t] EXCEPT !.pc = "unlock", !.s = NilSlice])
          /\ NoPanic
       \/ MapFatal(t, task[t], WriteFatal)
    /\ Registry

\* Exchange.negotiateConnection: the response with the connection id is
\* written (it was, when this step is enabled) and e.mapLock released
negotiateUnlock(t) ==
    /\ ~crashed
    /\ task[t].op = "negotiate" /\ task[t].pc = "unlock"
    /\ mapLock' = 0
    /\ Put(groups, heap, t, [task[t] EXCEPT !.pc = "done"])
    /\ NoPanic
    /\ UNCHANGED <<verbosity, relays, transportOf, nextId, connections, conn,
                   dispatched, nextSeq>>

\* where an addToGroup goes after its work: to its log loop if e.verbosity
\* > 0, else it is done
afterAdd == IF verbosity > 0 THEN "log" ELSE "done"

\* removeFromGroupByID is through: a task's returns, the event loop's goes
\* back to the range of removeFromAllGroups
Removed(a, L) ==
    [L EXCEPT !.pc = IF a = Loop THEN "groups" ELSE "done",
              !.g = IF a = Loop THEN "Global" ELSE @,
              !.s = NilSlice, !.i = 0, !.k = 0]

\* goroutine a is in removeFromGroupByID at pc
Removing(a, pc) ==
    IF a = Loop THEN listen.pc = pc
    ELSE task[a].op = "removeFromGroup" /\ task[a].pc = pc

\* getClientIndexInGroup has returned r to the if of addToGroup or of
\* removeFromGroupByID
Indexed(a, L, r) ==
    IF a # Loop /\ L.op = "addToGroup"
    THEN [L EXCEPT !.s = NilSlice, !.k = 0,
                   !.pc = IF r = -1 THEN "operands" ELSE afterAdd]
    ELSE IF r > -1 THEN [L EXCEPT !.pc = "header", !.i = r, !.s = NilSlice, !.k = 0]
         ELSE Removed(a, L)

\* Exchange.getClientIndexInGroup, the range statement: e.groups[g] has been
\* read and is s; a range over an empty slice ends at once
rangeSlice(a, L, s) ==
    IF s.len = 0 THEN Indexed(a, L, -1)
    ELSE [L EXCEPT !.s = s, !.k = 0, !.pc = "idxcell"]

\* Exchange.getClientIndexInGroup, one turn of its range: the next cell of
\* the slice read at the range statement is loaded and tested
getClientIndexInGroup(a) ==
    /\ ~crashed
    /\ Local(a).pc = "idxcell"
    /\ LET L == Local(a)
           c == heap[L.s.arr][L.k + 1]
       IN Put(groups, heap, a,
              IF c # NilClient /\ c = L.id THEN Indexed(a, L, L.k)
              ELSE IF L.k + 1 >= L.s.len THEN Indexed(a, L, -1)
              ELSE [L EXCEPT !.k = @ + 1])
    /\ NoPanic
    /\ Registry

\* Exchange.addToGroup, the call of getClientIndexInGroup up to its read of
\* e.groups[group]
addToGroup(t, g, id, serial) ==
    /\ MayBegin(t, serial)
    /\ Lookup(groups, g).len < MaxGroupLen
    /\ LET L == [IdleTask EXCEPT !.op = "addToGroup", !.g = g, !.id = id]
       IN \/ /\ Put(groups, heap, t, rangeSlice(t, L, Lookup(groups, g)))
             /\ NoPanic
          \/ MapFatal(t, L, ReadFatal)
    /\ Registry

\* Exchange.addToGroup, the first operand of its append: the read of
\* e.groups[group].  The language leaves open whether the index expression
\* is evaluated before or after the call that is the second operand; ord
\* keeps which came first.
addToGroupRead(t) ==
    /\ ~crashed
    /\ task[t].op = "addToGroup" /\ task[t].pc \in {"operands", "read"}
    /\ LET L == task[t]
       IN \/ /\ Put(groups, heap, t,
                    IF L.pc = "operands"
                    THEN [L EXCEPT !.s = Lookup(groups, L.g), !.ord = "map", !.pc = "cli"]
                    ELSE [L EXCEPT !.s = Lookup(groups, L.g), !.ord = "", !.pc = "append"])
             /\ NoPanic
          \/ MapFatal(t, L, ReadFatal)
    /\ Registry

\* Exchange.addToGroup, the append: one cell at a time
addToGroupAppend(t) ==
    /\ ~crashed
    /\ task[t].op = "addToGroup" /\ task[t].pc \in {"append", "copy"}
    /\ LET r == append(heap, task[t])
       IN Put(groups, r.heap, t, r.L)
    /\ NoPanic
    /\ Registry

\* Exchange.addToGroup: e.groups[group] = the slice appended to
addToGroupStore(t) ==
    /\ ~crashed
    /\ task[t].op = "addToGroup" /\ task[t].pc = "store"
    /\ \/ /\ Put(store(groups, task[t].g, task[t].s), heap, t,
                 [task[t] EXCEPT !.pc = afterAdd, !.s = NilSlice, !.c = NilClient])
          /\ NoPanic
       \/ MapFatal(t, task[t], WriteFatal)
    /\ Registry

\* Exchange.addToGroup with e.verbosity > 0, the range statement of the loop
\* that logs the entries: the read of e.groups[group]
addToGroupLog(t) ==
    /\ ~crashed
    /\ task[t].op = "addToGroup" /\ task[t].pc = "log"
    /\ LET L == task[t]
           s == Lookup(groups, L.g)
       IN \/ /\ Put(groups, heap, t,
                    IF s.len = 0 THEN [L EXCEPT !.pc = "done"]
                    ELSE [L EXCEPT !.pc = "logcell", !.s = s, !.k = 0])
             /\ NoPanic
          \/ MapFatal(t, L, ReadFatal)
    /\ Registry

\* Exchange.addToGroup with e.verbosity > 0, one turn of the log loop: the
\* next cell is loaded and its c.ConnectionID logged, a nil dereference on a
\* nil entry
addToGroupLogNext(t) ==
    /\ ~crashed
    /\ task[t].op = "addToGroup" /\ task[t].pc = "logcell"
    /\ LET L == task[t]
           c == heap[L.s.arr][L.k + 1]
       IN IF c = NilClient
          THEN /\ Panic("nil client")
               /\ Put(groups, heap, t, [L EXCEPT !.pc = "panic"])
          ELSE /\ NoPanic
               /\ Put(groups, heap, t,
                      IF L.k + 1 >= L.s.len
                      THEN [L EXCEPT !.pc = "done", !.s = NilSlice, !.k = 0]
                      ELSE [L EXCEPT !.k = @ + 1])
    /\ Registry

\* Exchange.removeFromGroupByID, the call of getClientIndexInGroup up to its
\* read of e.groups[g]
removeFromGroupByID(t, g, id, serial) ==
    /\ MayBegin(t, serial)
    /\ LET L == [IdleTask EXCEPT !.op = "removeFromGroup", !.g = g, !.id = id]
       IN \/ /\ Put(groups, heap, t, rangeSlice(t, L, Lookup(groups, g)))
             /\ NoPanic
          \/ MapFatal(t, L, ReadFatal)
    /\ Registry

\* Exchange.removeFromGroupByID: group := e.groups[g], read after the index
\* search has returned
removeFromGroupHeader(a) ==
    /\ ~crashed
    /\ Removing(a, "header")
    /\ \/ /\ Put(groups, heap, a,
                 [Local(a) EXCEPT !.pc = "nil", !.s = Lookup(groups, Local(a).g)])
          /\ NoPanic
       \/ MapFatal(a, Local(a), ReadFatal)
    /\ Registry

\* group[i] = nil
clearEntry(h, s, i) == [h EXCEPT ![s.arr][i + 1] = NilClient]

\* Exchange.removeFromGroupByID: group[i] = nil, with the bounds check of the
\* index expression: i is the index found in the slice the search read,
\* group the slice read after it.  With nothing behind i to move, the append
\* that follows touches no cell.
removeFromGroupNil(a) ==
    /\ ~crashed
    /\ Removing(a, "nil")
    /\ LET L == Local(a)
       IN IF L.i >= L.s.len
          THEN /\ Panic("index out of range")
               /\ Put(groups, heap, a, [L EXCEPT !.pc = "panic"])
          ELSE /\ NoPanic
               /\ Put(groups, clearEntry(heap, L.s, L.i), a,
                      IF L.i + 1 < L.s.len
                      THEN [L EXCEPT !.pc = "shift", !.k = L.i]
                      ELSE [L EXCEPT !.pc = "store",
                                     !.s = [arr |-> L.s.arr, len |-> L.s.len - 1]])
    /\ Registry

\* Exchange.removeFromGroupByID: append(group[:i], group[i+1:]...), the move
\* of the cells behind i one place down in the array, in ascending order,
\* one access at a time: cell k+1 is loaded, then stored into cell k.  The
\* last cell keeps its value.
removeFromGroupShift(a) ==
    /\ ~crashed
    /\ Removing(a, "shift")
    /\ LET L == Local(a)
       IN IF L.buf = <<>>
          THEN Put(groups, heap, a, [L EXCEPT !.buf = <<heap[L.s.arr][L.k + 2]>>])
          ELSE Put(groups, [heap EXCEPT ![L.s.arr][L.k + 1] = L.buf[1]], a,
                   IF L.k + 2 < L.s.len
                   THEN [L EXCEPT !.buf = <<>>, !.k = @ + 1]
                   ELSE [L EXCEPT !.buf = <<>>, !.k = 0, !.pc = "store",
                                  !.s = [arr |-> L.s.arr, len |-> L.s.len - 1]])
    /\ NoPanic
    /\ Registry

\* Exchange.removeFromGroupByID: e.groups[g] = the slice shifted
removeFromGroupStore(a) ==
    /\ ~crashed
    /\ Removing(a, "store")
    /\ \/ /\ Put(store(groups, Local(a).g, Local(a).s), heap, a,
                 [Local(a) EXCEPT !.pc = "len", !.s = NilSlice, !.i = 0])
          /\ NoPanic
       \/ MapFatal(a, Local(a), WriteFatal)
    /\ Registry

\* Exchange.removeFromGroupByID: the test len(e.groups[g]) == 0
removeFromGroupLen(a) ==
    /\ ~crashed
    /\ Removing(a, "len")
    /\ \/ /\ Put(groups, heap, a,
                 IF Lookup(groups, Local(a).g).len = 0
                 THEN [Local(a) EXCEPT !.pc = "drop"]
                 ELSE Removed(a, Local(a)))
          /\ NoPanic
       \/ MapFatal(a, Local(a), ReadFatal)
    /\ Registry

\* Exchange.removeFromGroupByID: delete(e.groups, g)
removeFromGroupDrop(a) ==
    /\ ~crashed
    /\ Removing(a, "drop")
    /\ \/ /\ Put(delete(groups, Local(a).g), heap, a, Removed(a, Local(a)))
          /\ NoPanic
       \/ MapFatal(a, Local(a), WriteFatal)
    /\ Registry

(* ------------------------- the relay registry ------------------------- *)
\* The relay types an application registers.  A Go type has the methods
\* declared with a value receiver in its own method set, and those declared
\* with a pointer receiver only in the method set of the pointer type.
\* nargs: the parameters a method takes after the *Relay.
RelayTypes ==
    {[Name |-> "Chat",
      valueMethods |-> {[name |-> "Broadcast", nargs |-> 2]},
      ptrMethods |-> {[name |-> "Reset", nargs |-> 1]}]}

\* Exchange.getMethodsForType on reflect.TypeOf(x): the method set of T
getMethodsForType(t) == {m.name : m \in t.valueMethods}

\* the definition RegisterRelay records for a type
Definition(x) == [Name |-> x.Name, t |-> x, methods |-> getMethodsForType(x)]

\* reflect.New(relay.t).MethodByName(fn): the method set of *T
MethodByName(t, fn) == {m \in t.valueMethods \cup t.ptrMethods : m.name = fn}

\* Exchange.getRelayByName: a fresh handle on the first definition of that
\* name, nil if there is none
getRelayByName(name, cID) ==
    IF \E k \in 1..Len(relays) : relays[k].Name = name
    THEN [Name |-> name, ConnectionID |-> cID, nil |-> FALSE]
    ELSE NilRelay

\* the reflect.Type a handle carries: that of the first definition of its name
TypeOf(relay) ==
    relays[CHOOSE k \in 1..Len(relays) :
              /\ relays[k].Name = relay.Name
              /\ \A j \in 1..(k - 1) : relays[j].Name # relay.Name].t

\* the method names recorded at registration for the definition a handle is on
RegisteredMethods(name) ==
    relays[CHOOSE k \in 1..Len(relays) :
              /\ relays[k].Name = name
              /\ \A j \in 1..(k - 1) : relays[j].Name # name].methods

\* Exchange.buildArgValues: the handle, then the arguments in order
buildArgValues(relay, args) == <<relay>> \o args

\* Exchange.callRelayMethod: what the call does.  relay.t of a nil handle is
\* a nil dereference; method.Call panics unless the argument count is the
\* method's.
callRelayMethod(relay, fn, args) ==
    IF relay.nil THEN [outcome |-> "panic", msg |-> "nil relay", method |-> "", in |-> <<>>]
    ELSE LET ms == MethodByName(TypeOf(relay), fn)
         IN IF ms = {}
            THEN [outcome |-> "UnknownMethod", msg |-> "", method |-> "", in |-> <<>>]
            ELSE LET m == CHOOSE x \in ms : TRUE
                 IN IF Len(args) # m.nargs
                    THEN [outcome |-> "panic", msg |-> "reflect call", method |-> "",
                          in |-> <<>>]
                    ELSE [outcome |-> "invoked", msg |-> "", method |-> m.name,
                          in |-> buildArgValues(relay, args)]

\* Exchange.RegisterRelay
RegisterRelay(x) ==
    /\ ~crashed
    /\ Len(relays) < MaxRelays
    /\ relays' = Append(relays, Definition(x))
    /\ UNCHANGED <<verbosity, groups, heap, transportOf, mapLock, nextId, connections, conn,
                   listen, task, dispatched, nextSeq, fault, crashed>>


(* ----------------------- calls to client methods ---------------------- *)
\* interface{} values as encoding/json decodes and encodes them: a string,
\* or an array ([]interface{}) of values
JSONString(x) == [kind |-> "string", s |-> x, items |-> <<>>]
JSONArray(xs) == [kind |-> "array", s |-> "", items |-> xs]

\* the handle server-side code calls clients through, the method and the
\* arguments it calls
CallerRelay == relays[1].Name
CallerFn == "recv"
CallerArgs == <<JSONString("hi")>>

\* webSocketTransport.CallClientFunction: the encoded envelope
encode(relay, fn, args) == [R |-> relay.Name, M |-> fn, A |-> args]

\* after one delivery: the call to one client returns, a broadcast goes on
\* to the next cell of the slice its range statement read, if there is one
Advance(L) ==
    IF L.single THEN [L EXCEPT !.pc = "done", !.s = NilSlice]
    ELSE IF L.k + 1 >= L.s.len THEN [L EXCEPT !.pc = "done", !.s = NilSlice, !.k = @ + 1]
    ELSE [L EXCEPT !.pc = "iter", !.k = @ + 1]

\* The event loop is inside a write of the connection table: the insert
\* c.connections[conn.id] = conn or delete(c.connections, conn.id).  The
\* table is a Go map read by other goroutines without synchronisation: a read
\* that falls into the write either gets the entry as it stands or is
\* stopped by the runtime ("fatal error: concurrent map read and map write").
TableRace == listen.pc \in {"insert", "delete"}

\* the runtime's fatal error ends the process
Fatal ==
    /\ fault' = "concurrent map read and map write"
    /\ crashed' = TRUE

\* c.transport.CallClientFunction up to the read of the connection table:
\* the nil Transport panics, the long-poll transport takes the envelope, the
\* websocket transport encodes it and goes on to look the connection up.
\* Result: the task, pc "panic" on a panic.
CallClientFunction(L, c) ==
    CASE transportOf[c] = "nil" -> [L EXCEPT !.pc = "panic"]
      [] transportOf[c] = "longpoll" -> Advance([L EXCEPT !.called = Append(@, c)])
      [] OTHER -> [L EXCEPT !.called = Append(@, c), !.c = c, !.pc = "table"]

\* webSocketTransport.CallClientFunction: o := c.connections[relay.ConnectionID]
\* and the test o != nil
CallClientFunctionRead(t) ==
    /\ ~crashed
    /\ task[t].pc = "table"
    /\ LET L == task[t]
           o == connections[L.c]
       IN \/ /\ Put(groups, heap, t,
                    IF o = NilConn THEN Advance(L) ELSE [L EXCEPT !.o = o, !.pc = "send"])
             /\ NoPanic
          \/ /\ TableRace
             /\ Put(groups, heap, t, [L EXCEPT !.pc = "panic"])
             /\ Fatal
    /\ Registry

\* the client of this id has an open websocket connection: one in the
\* connection table whose outbound queue has not been closed
Open(id) ==
    /\ transportOf[id] = "websocket"
    /\ connections[id] # NilConn
    /\ ~conn[connections[id]].closed

\* the locals of a call to the clients of group g, begun now
Calling(op, g, id) ==
    [IdleTask EXCEPT !.op = op, !.g = g, !.id = id,
                     !.members0 = Members(groups, heap, g),
                     !.open0 = {x \in ClientIDs : Open(x)}]

\* where callGroupMethod goes after its test of the group: to the range
\* over its slice, or for a group that is not there to the end, by way of
\* the log line "group '%s' not found. All groups: %v" if e.verbosity > 0
found(g) ==
    IF g \in DOMAIN groups THEN "range"
    ELSE IF verbosity > 0 THEN "logmap" ELSE "done"

\* Exchange.callGroupMethod, the test _, ok := e.groups[group]
callGroupMethod(t, g, serial) ==
    /\ MayBegin(t, serial)
    /\ relays # <<>>
    /\ nextSeq <= MaxSends
    /\ LET L == [Calling("callGroup", g, EmptyID) EXCEPT
                     !.stayed = Members(groups, heap, g)]
       IN \/ /\ Put(groups, heap, t,
                    [L EXCEPT !.pc = found(g)])
             /\ NoPanic
          \/ MapFatal(t, L, ReadFatal)
    /\ Registry

\* Exchange.callGroupMethod with e.verbosity > 0 and the group not there:
\* log.Printf("... All groups: %v", group, e.groups) walks the map, a range
\* with no lock held.  This is a step of that range that produces a key: one
\* not produced yet, in any order.  (The entries' cells are read for the
\* text only, and not dereferenced.)
callGroupLog(t, g) ==
    /\ ~crashed
    /\ task[t].pc \in {"logmap", "logkeys"}
    /\ g \in DOMAIN groups \ Seen(t)
    /\ \/ /\ Put(groups, heap, t,
                 [task[t] EXCEPT !.pc = "logkeys", !.todo = ToDo(t) \ {g},
                                 !.seen = Seen(t) \cup {g}])
          /\ NoPanic
       \/ MapFatal(t, task[t], IterFatal)
    /\ Registry

\* the step of that range that ends it; the line is logged and
\* callGroupMethod returns
callGroupLogEnd(t) ==
    /\ ~crashed
    /\ task[t].pc \in {"logmap", "logkeys"}
    /\ ToDo(t) = {}
    /\ \/ /\ Put(groups, heap, t,
                 [task[t] EXCEPT !.pc = "done", !.todo = {}, !.seen = {}])
          /\ NoPanic
       \/ MapFatal(t, task[t], IterFatal)
    /\ Registry

\* Exchange.callGroupMethod, the range statement: e.groups[group] is read
\* again, and the range runs over the slice as it is then
callGroupRange(t) ==
    /\ ~crashed
    /\ task[t].op \in {"callGroup", "callClient"} /\ task[t].pc = "range"
    /\ LET L == task[t]
           s == Lookup(groups, L.g)
       IN \/ /\ Put(groups, heap, t,
                    IF s.len = 0 THEN [L EXCEPT !.pc = "done"]
                    ELSE [L EXCEPT !.pc = "iter", !.s = s, !.k = 0])
             /\ NoPanic
          \/ MapFatal(t, L, ReadFatal)
    /\ Registry

\* Exchange.callGroupMethod: one turn of the range loop, on the cell loaded
\* in this turn
callGroupNext(t) ==
    /\ ~crashed
    /\ task[t].op \in {"callGroup", "callClient"} /\ task[t].pc = "iter"
    /\ LET L == task[t]
           c == heap[L.s.arr][L.k + 1]
           L2 == IF c = NilClient THEN Advance(L) ELSE CallClientFunction(L, c)
       IN /\ Put(groups, heap, t, L2)
          /\ IF L2.pc = "panic" THEN Panic("nil transport") ELSE NoPanic
    /\ Registry

\* Exchange.callGroupMethodExcept through a handle of connection id `id`, the
\* range statement: the slice is e.groups[g], the nil slice for a group that
\* is not there
callGroupMethodExcept(t, g, id, serial) ==
    /\ MayBegin(t, serial)
    /\ relays # <<>>
    /\ nextSeq <= MaxSends
    /\ LET L == Calling("callGroupExcept", g, id)
           s == Lookup(groups, g)
       IN \/ /\ Put(groups, heap, t,
                    IF s.len = 0 THEN [L EXCEPT !.pc = "done"]
                    ELSE [L EXCEPT !.pc = "iter", !.s = s])
             /\ NoPanic
          \/ MapFatal(t, L, ReadFatal)
    /\ Registry

\* Exchange.callGroupMethodExcept: one turn of the range loop.  c.ConnectionID
\* is read without a test of c: a nil entry is a nil pointer dereference.
callGroupExceptNext(t) ==
    /\ ~crashed
    /\ task[t].op = "callGroupExcept" /\ task[t].pc = "iter"
    /\ LET L == task[t]
           c == heap[L.s.arr][L.k + 1]
           L2 == IF c = NilClient THEN [L EXCEPT !.pc = "panic"]
                 ELSE IF c = L.id THEN Advance(L)
                 ELSE CallClientFunction(L, c)
       IN /\ Put(groups, heap, t, L2)
          /\ IF L2.pc # "panic" THEN NoPanic
             ELSE IF c = NilClient THEN Panic("nil client")
             ELSE Panic("nil transport")
    /\ Registry

\* the connection id generateConnectionID gives a handle made by
\* Exchange.Relay: a fresh one, the id of no client and of no connection
RelayID == MaxClients + 2

\* Exchange.Relay: the handle for server-side code
Relay(x) == getRelayByName(x.Name, RelayID)

\* getClientByConnectionID has returned c: callClientMethod calls the client
\* through its transport if it is not nil; addToGroup has the second operand
\* of its append and goes on to the first, if it has not read it yet
Got(L, c) ==
    LET L1 == [L EXCEPT !.gl = NilSlice, !.k = 0]
    IN IF L.op = "callClient"
       THEN IF c = NilClient THEN [L1 EXCEPT !.pc = "done"]
            ELSE CallClientFunction(L1, c)
       ELSE [L1 EXCEPT !.c = c, !.ord = IF @ = "map" THEN "" ELSE @,
                       !.pc = IF L.ord = "map" THEN "append" ELSE "read"]

\* Exchange.getClientByConnectionID, the range statement: e.groups["Global"]
\* has been read and is gl; a range over an empty slice ends at once and the
\* result is nil
Ranging(L, gl) ==
    IF gl.len = 0 THEN Got(L, NilClient)
    ELSE [L EXCEPT !.pc = "clicell", !.gl = gl, !.k = 0]

\* Exchange.addToGroup, the second operand of its append: the call of
\* getClientByConnectionID up to its read of e.groups["Global"]
addToGroupLookup(t) ==
    /\ ~crashed
    /\ task[t].op = "addToGroup" /\ task[t].pc \in {"operands", "cli"}
    /\ LET L == [task[t] EXCEPT !.ord = IF task[t].pc = "operands" THEN "call" ELSE @]
       IN \/ /\ Put(groups, heap, t, Ranging(L, Lookup(groups, "Global")))
             /\ NoPanic
          \/ MapFatal(t, task[t], ReadFatal)
    /\ Registry

\* Exchange.getClientByConnectionID, one turn of its range: the next cell of
\* the slice read at the range statement is loaded and its c.ConnectionID
\* read, a nil pointer dereference on a nil entry
getClientByConnectionID(t) ==
    /\ ~crashed
    /\ task[t].pc = "clicell"
    /\ LET L == task[t]
           c == heap[L.gl.arr][L.k + 1]
           L2 == IF c = NilClient THEN [L EXCEPT !.pc = "panic"]
                 ELSE IF c = L.id THEN Got(L, c)
                 ELSE IF L.k + 1 >= L.gl.len THEN Got(L, NilClient)
                 ELSE [L EXCEPT !.k = @ + 1]
       IN /\ Put(groups, heap, t, L2)
          /\ IF L2.pc # "panic" THEN NoPanic
             ELSE IF c = NilClient THEN Panic("nil client")
             ELSE Panic("nil transport")
    /\ Registry

\* Exchange.callClientMethod: a handle without connection id broadcasts to
\* "Global" (callGroupMethod: this step is its test of the group, with the
\* log line for a group that is not there to follow); through
\* any other the client of that id is looked up in "Global" (this step is
\* getClientByConnectionID's read of e.groups["Global"])
callClientMethod(t, id, serial) ==
    /\ MayBegin(t, serial)
    /\ relays # <<>>
    /\ nextSeq <= MaxSends
    /\ LET L == [Calling("callClient", "Global", id) EXCEPT !.single = (id # EmptyID)]
           L2 == IF id = EmptyID
                 THEN [L EXCEPT !.pc = found("Global")]
                 ELSE Ranging(L, Lookup(groups, "Global"))
       IN \/ /\ Put(groups, heap, t, L2)
             /\ NoPanic
          \/ MapFatal(t, L, ReadFatal)
    /\ Registry

\* o.out <- buff.Bytes(): blocks while the channel is full, panics on a
\* closed channel
Send(t) ==
    /\ ~crashed
    /\ task[t].pc = "send"
    /\ LET L == task[t]
           o == L.o
       IN IF conn[o].closed
          THEN /\ Panic("send on closed channel")
               /\ Put(groups, heap, t, [L EXCEPT !.pc = "panic"])
               /\ UNCHANGED <<conn, nextSeq>>
          ELSE /\ Len(conn[o].out) < MaxQueue
               /\ conn' = [conn EXCEPT ![o].enq = @ + 1, ![o].out =
                             Append(@, [env |-> encode(getRelayByName(CallerRelay, L.c),
                                                       CallerFn, CallerArgs),
                                        n |-> conn[o].enq + 1])]
               /\ nextSeq' = nextSeq + 1
               /\ Put(groups, heap, t,
                      Advance([L EXCEPT !.sent = Append(@, o), !.o = NilConn]))
               /\ NoPanic
    /\ UNCHANGED <<verbosity, relays, transportOf, mapLock, nextId, connections, dispatched>>

\* the operation returns to its caller
Return(t) ==
    /\ ~crashed
    /\ task[t].pc = "done"
    /\ Put(groups, heap, t, IdleTask)
    /\ NoPanic
    /\ Registry

(* ----------------------- the websocket transport ---------------------- *)
\* the connection ids a peer can name: those a negotiate has written in its
\* response (Issued), and any string of its own
Issued ==
    {id \in 1..(nextId - 1) :
        \A t \in Tasks : ~(/\ task[t].op = "negotiate"
                           /\ task[t].pc \notin {"unlock", "done"}
                           /\ task[t].id = id)}
KnownIDs == Issued \cup {BogusID}

\* the connection ids of the handles client methods are called through: a
\* client's, none, or that of a handle made by Exchange.Relay
HandleIDs == Issued \cup {EmptyID} \cup {Relay(x).ConnectionID : x \in RelayTypes}

\* Exchange.upgradeWebSocket up to c.read(): the connection (of the id the
\* peer names) is built and handed to the event loop on the unbuffered
\* channel connected, the write duty and the keep-alive are started and the
\* read loop entered.
\* The event loop has the connection but has not stored it yet.
upgradeWebSocket(c, id, serial) ==
    /\ ~crashed
    /\ listen.pc = "idle"
    /\ serial => ~Busy
    /\ conn[c].pc = "none"
    /\ \A b \in Conns : b < c => conn[b].pc # "none"
    /\ id \in KnownIDs
    /\ conn' = [conn EXCEPT ![c] = [NoConn EXCEPT !.id = id, !.pc = "open",
                                                  !.wsOpen = TRUE, !.wr = "run",
                                                  !.ka = "run"]]
    /\ listen' = [IdleListen EXCEPT !.pc = "insert", !.c = c, !.id = id]
    /\ UNCHANGED <<verbosity, relays, groups, heap, transportOf, mapLock, nextId,
                   connections, task, dispatched, nextSeq, fault, crashed>>

\* webSocketTransport.listen, case conn := <-c.connected:
\* c.connections[conn.id] = conn
listenInsert ==
    /\ ~crashed
    /\ listen.pc = "insert"
    /\ connections' = [connections EXCEPT ![listen.id] = listen.c]
    /\ listen' = IdleListen
    /\ UNCHANGED <<verbosity, relays, groups, heap, transportOf, mapLock, nextId, conn,
                   task, dispatched, nextSeq, fault, crashed>>

\* connection.read: ReadMessage fails (the peer left, the network failed, the
\* keep-alive or the write duty closed the socket); the loop breaks, the
\* socket is closed and the deferred send of the disconnected event is next
readError(c) ==
    /\ ~crashed
    /\ conn[c].pc = "open"
    /\ conn' = [conn EXCEPT ![c].pc = "disc1", ![c].wsOpen = FALSE]
    /\ UNCHANGED <<verbosity, relays, groups, heap, transportOf, mapLock, nextId, connections,
                   listen, task, dispatched, nextSeq, fault, crashed>>

\* webSocketTransport.listen, case conn := <-c.disconnected.  The sender is
\* connection.read's deferred send, then upgradeWebSocket's.  The test is on
\* the id: if the table has an entry of that id the loop goes on to
\* removeFromAllGroups.
disconnected(c, serial) ==
    /\ ~crashed
    /\ listen.pc = "idle"
    /\ serial => ~Busy
    /\ conn[c].pc \in {"disc1", "disc2"}
    /\ conn' = [conn EXCEPT ![c].pc = IF @ = "disc1" THEN "disc2" ELSE "done"]
    /\ Commit(groups, heap, task,
              IF connections[conn[c].id] # NilConn
              THEN [IdleListen EXCEPT !.pc = "range", !.c = c, !.id = conn[c].id]
              ELSE listen)
    /\ NoPanic
    /\ UNCHANGED <<verbosity, relays, transportOf, mapLock, nextId, connections, dispatched, nextSeq>>

\* Exchange.removeFromAllGroups, a step of the range over the map that
\* produces a key: one the range has not produced yet, in any order; a key
\* stored since the range began may be produced or not
removeFromAllGroups(g) ==
    /\ ~crashed
    /\ listen.pc \in {"range", "groups"}
    /\ g \in DOMAIN groups \ Seen(Loop)
    /\ \/ /\ Commit(groups, heap, task,
                    [listen EXCEPT !.pc = "enter", !.g = g, !.todo = ToDo(Loop) \ {g},
                                   !.seen = Seen(Loop) \cup {g}])
          /\ NoPanic
       \/ MapFatal(Loop, listen, IterFatal)
    /\ Registry

\* Exchange.removeFromAllGroups, the step of the range that ends it: no key
\* that was in the map when the range began, and has been since, is left.
\* Over an empty map this is the range statement itself, which an
\* assignment of the first key by another goroutine can stop.
removeFromAllGroupsEnd ==
    /\ ~crashed
    /\ listen.pc \in {"range", "groups"}
    /\ ToDo(Loop) = {}
    /\ \/ /\ Commit(groups, heap, task,
                    [listen EXCEPT !.pc = "delete", !.todo = {}, !.seen = {}])
          /\ NoPanic
       \/ MapFatal(Loop, listen, IterFatal)
    /\ Registry

\* removeFromGroupByID(group, id) in the event loop, the call of
\* getClientIndexInGroup up to its read of e.groups[g]
listenRemove ==
    /\ ~crashed
    /\ listen.pc = "enter"
    /\ \/ /\ Commit(groups, heap, task, rangeSlice(Loop, listen, Lookup(groups, listen.g)))
          /\ NoPanic
       \/ MapFatal(Loop, listen, ReadFatal)
    /\ Registry

\* webSocketTransport.listen: delete(c.connections, conn.id); the entry of
\* that id is gone
listenDelete ==
    /\ ~crashed
    /\ listen.pc = "delete"
    /\ connections' = [connections EXCEPT ![listen.id] = NilConn]
    /\ listen' = [listen EXCEPT !.pc = "close"]
    /\ UNCHANGED <<verbosity, relays, groups, heap, transportOf, mapLock, nextId, conn,
                   task, dispatched, nextSeq, fault, crashed>>

\* webSocketTransport.listen: close(conn.out).  Closing a closed channel
\* panics, in the event loop's goroutine.
listenClose ==
    /\ ~crashed
    /\ listen.pc = "close"
    /\ IF conn[listen.c].closed
       THEN /\ Panic("close of closed channel")
            /\ UNCHANGED conn
       ELSE /\ NoPanic
            /\ conn' = [conn EXCEPT ![listen.c].closed = TRUE]
    /\ listen' = IdleListen
    /\ UNCHANGED <<verbosity, relays, groups, heap, transportOf, mapLock, nextId,
                   connections, task, dispatched, nextSeq>>

\* what a step of a connection's write or keep-alive duty leaves alone
Duty ==
    UNCHANGED <<verbosity, relays, groups, heap, transportOf, mapLock, nextId, connections,
                listen, task, dispatched, nextSeq>>

\* a write duty that receives the message enqueued last, not first
writeNewest(c) ==
    /\ ~crashed
    /\ conn[c].wr = "run"
    /\ conn[c].out # <<>>
    /\ conn' = [conn EXCEPT ![c].out = SubSeq(@, 1, Len(@) - 1),
                            ![c].cur = conn[c].out[Len(conn[c].out)].n,
                            ![c].wr = "writing"]
    /\ NoPanic
    /\ Duty

\* connection.write, for message := range c.out: the receive of the next
\* message from the channel.  The duty then holds the message; it has not
\* written it.
write(c) ==
    /\ ~crashed
    /\ conn[c].wr = "run"
    /\ conn[c].out # <<>>
    /\ conn' = [conn EXCEPT ![c].out = Tail(@), ![c].cur = Head(conn[c].out).n,
                            ![c].wr = "writing"]
    /\ NoPanic
    /\ Duty

\* connection.write: c.ws.WriteMessage(websocket.TextMessage, message)
\* returns.  The message is written and the duty goes back to the channel;
\* on a socket that has been closed the call fails and the loop breaks.
writeMessage(c) ==
    /\ ~crashed
    /\ conn[c].wr = "writing"
    /\ conn' = [conn EXCEPT ![c].cur = 0,
                            ![c].written = IF conn[c].wsOpen
                                           THEN Append(@, conn[c].cur) ELSE @,
                            ![c].wr = IF conn[c].wsOpen THEN "run" ELSE "closing"]
    /\ NoPanic
    /\ Duty

\* connection.write: WriteMessage fails on an open socket (the network);
\* the message is lost and the loop breaks
writeError(c) ==
    /\ ~crashed
    /\ conn[c].wr = "writing"
    /\ conn[c].wsOpen
    /\ conn' = [conn EXCEPT ![c].cur = 0, ![c].wr = "closing"]
    /\ NoPanic
    /\ Duty

\* connection.write: c.out is closed and drained; the range ends
writeExit(c) ==
    /\ ~crashed
    /\ conn[c].wr = "run"
    /\ conn[c].out = <<>>
    /\ conn[c].closed
    /\ conn' = [conn EXCEPT ![c].wr = "closing"]
    /\ NoPanic
    /\ Duty

\* connection.write, after the loop: c.ws.Close()
writeClose(c) ==
    /\ ~crashed
    /\ conn[c].wr = "closing"
    /\ conn' = [conn EXCEPT ![c].wr = "done", ![c].wsOpen = FALSE]
    /\ NoPanic
    /\ Duty

\* keepAlive's goroutine: c.ws.WriteMessage(websocket.PingMessage, ...), a
\* second writer of the socket beside the write duty.  On a closed socket
\* the call fails and the goroutine returns.  The socket's library allows
\* one writer at a time: a ping that falls into the write duty's
\* WriteMessage either is written or is stopped by the library's check
\* (panic "concurrent write to websocket connection", which nothing
\* recovers).
keepAlive(c) ==
    /\ ~crashed
    /\ conn[c].ka = "run"
    /\ conn[c].pings < MaxPings
    /\ \/ /\ conn' = IF conn[c].wsOpen
                     THEN [conn EXCEPT ![c].written = Append(@, Ping), ![c].pings = @ + 1]
                     ELSE [conn EXCEPT ![c].ka = "done"]
          /\ NoPanic
       \/ /\ conn[c].wsOpen /\ conn[c].wr = "writing"
          /\ Panic("concurrent write to websocket connection")
          /\ UNCHANGED conn
    /\ Duty

\* keepAlive's goroutine: WriteMessage of the ping fails on an open socket
\* (the network); the goroutine returns.  No ping is written and the socket
\* is not closed on this path.
keepAliveError(c) ==
    /\ ~crashed
    /\ conn[c].ka = "run"
    /\ conn[c].wsOpen
    /\ conn' = [conn EXCEPT ![c].ka = "done"]
    /\ NoPanic
    /\ Duty

\* keepAlive's goroutine, after a ping and its sleep: no pong has come
\* within the timeout; c.ws.Close() and the goroutine returns
keepAliveClose(c) ==
    /\ ~crashed
    /\ conn[c].ka = "run"
    /\ conn[c].pings > 0
    /\ conn' = [conn EXCEPT ![c].ka = "done", ![c].wsOpen = FALSE]
    /\ NoPanic
    /\ Duty

(* --------------------------- inbound calls ---------------------------- *)
\* an envelope {"S": .., "R": .., "M": .., "A": [..], "C": ..} decoded
Envelope(S, R, M, A, C) == [ok |-> TRUE, S |-> S, R |-> R, M |-> M, A |-> A, C |-> C]

\* what a peer sends: a body that is no JSON (BadJSON); a server call naming
\* a relay method (of the value or of the pointer receiver, or none) with as
\* many arguments as the method takes or not, or naming no relay; a call of
\* a client function to re-deliver
Inbound ==
    LET a == JSONString("a")
        b == JSONString("b")
    IN {BadJSON} \cup
       {Envelope(TRUE, "Chat", "Broadcast", <<a, b>>, C) : C \in KnownIDs} \cup
       {Envelope(TRUE, "Chat", "Broadcast", <<a>>, C) : C \in KnownIDs} \cup
       {Envelope(TRUE, "Chat", "Reset", <<a>>, C) : C \in KnownIDs} \cup
       {Envelope(TRUE, "Chat", "Nope", <<a>>, C) : C \in KnownIDs} \cup
       {Envelope(TRUE, "Nope", "Broadcast", <<a, b>>, C) : C \in KnownIDs} \cup
       {Envelope(FALSE, "Chat", CallerFn, <<a>>, C) : C \in KnownIDs} \cup
       {Envelope(FALSE, "Chat", CallerFn, <<a, b>>, C) : C \in KnownIDs} \cup
       {Envelope(FALSE, "Nope", CallerFn, <<a>>, C) : C \in KnownIDs}

\* what a peer posts to the call-server endpoint: a body that is no JSON, or
\* a call of a relay method ("S" is not a field of the envelope decoded there)
Requests == {raw \in Inbound : raw = BadJSON \/ raw.S}

\* the entry of the dispatch log for one inbound message: the message, the
\* handle resolved for it and what the call did
Logged(path, raw, cid, relay, res) ==
    [path |-> path, raw |-> raw, cid |-> cid, relay |-> relay, outcome |-> res.outcome,
     method |-> res.method, in |-> res.in]

\* what a call that did not reach a relay method did
Outcome(o) == [outcome |-> o, msg |-> "", method |-> "", in |-> <<>>]

\* Exchange.callServer, the handler: the decode error is not looked at (the
\* envelope is then the zero value), the handle is resolved for the id of
\* the URL and callRelayMethod is started in a goroutine of its own
callServer(raw, cid) ==
    /\ ~crashed
    /\ Len(dispatched) < MaxDispatch
    /\ dispatched' = Append(dispatched,
                            Logged("http", raw, cid, getRelayByName(raw.R, cid),
                                   Outcome("started")))
    /\ UNCHANGED <<verbosity, relays, groups, heap, transportOf, mapLock, nextId, connections,
                   conn, listen, task, nextSeq, fault, crashed>>

\* the goroutine callServer started: callRelayMethod on the handle resolved
\* by the handler, where nothing recovers a panic
callServerGo(k) ==
    /\ ~crashed
    /\ k \in 1..Len(dispatched)
    /\ dispatched[k].path = "http" /\ dispatched[k].outcome = "started"
    /\ LET d == dispatched[k]
           res == callRelayMethod(d.relay, d.raw.M, d.raw.A)
       IN /\ dispatched' = [dispatched EXCEPT ![k] =
                               Logged("http", d.raw, d.cid, d.relay, res)]
          /\ IF res.outcome = "panic" THEN Panic(res.msg) ELSE NoPanic
    /\ UNCHANGED <<verbosity, relays, groups, heap, transportOf, mapLock, nextId, connections,
                   conn, listen, task, nextSeq>>

\* the read duties between the lookup of the relay and the end of their message
Reading == {b \in Conns : conn[b].pc \in {"call", "resend"}}

\* connection.read, one message up to the lookup of the relay: dropped if it
\* does not decode, else the handle is resolved
readMessage(c, raw) ==
    /\ ~crashed
    /\ conn[c].pc = "open"
    /\ Cardinality(Reading) < MaxReading
    /\ Len(dispatched) + Cardinality(Reading) < MaxDispatch
    /\ IF ~raw.ok
       THEN /\ dispatched' = Append(dispatched,
                                    Logged("socket", raw, conn[c].id, NilRelay,
                                           Outcome("dropped")))
            /\ UNCHANGED conn
       ELSE /\ conn' = [conn EXCEPT ![c].pc = "call", ![c].msg = raw,
                                    ![c].relay = getRelayByName(raw.R, raw.C)]
            /\ UNCHANGED dispatched
    /\ UNCHANGED <<verbosity, relays, groups, heap, transportOf, mapLock, nextId,
                   connections, listen, task, nextSeq, fault, crashed>>

\* connection.read, the use of the handle resolved: callRelayMethod if
\* m.Server, else CallClientFunction up to its test of the connection read
\* from the table (a read that may fall into the event loop's write).  A
\* panic unwinds read (its deferred send of the disconnected event runs, the
\* socket is not closed) and is recovered by the HTTP server.
readCall(c) ==
    /\ ~crashed
    /\ conn[c].pc = "call"
    /\ LET raw == conn[c].msg
           relay == conn[c].relay
           o == connections[raw.C]
           res == IF raw.S THEN callRelayMethod(relay, raw.M, raw.A)
                  ELSE IF relay.nil
                  THEN [outcome |-> "panic", msg |-> "nil relay", method |-> "", in |-> <<>>]
                  ELSE IF o = NilConn THEN Outcome("miss")
                  ELSE Outcome("found")
       IN \/ /\ IF res.outcome = "found"
                THEN /\ conn' = [conn EXCEPT ![c].pc = "resend", ![c].to = o]
                     /\ UNCHANGED <<dispatched, fault>>
                ELSE /\ dispatched' = Append(dispatched,
                                             Logged("socket", raw, conn[c].id, relay, res))
                     /\ fault' = IF res.outcome = "panic" THEN res.msg ELSE fault
                     /\ conn' = [conn EXCEPT ![c].msg = BadJSON, ![c].relay = NilRelay,
                                             ![c].pc = IF res.outcome = "panic"
                                                       THEN "disc1" ELSE "open"]
             /\ UNCHANGED crashed
          \/ /\ TableRace
             /\ ~raw.S /\ ~relay.nil
             /\ dispatched' = Append(dispatched, Logged("socket", raw, conn[c].id, relay,
                                                        Outcome("fatal")))
             /\ Fatal
             /\ UNCHANGED conn
    /\ UNCHANGED <<verbosity, relays, groups, heap, transportOf, mapLock, nextId,
                   connections, listen, task, nextSeq>>

\* connection.read in a re-delivery: o.out <- buff.Bytes(), with m.Arguments
\* as the one variadic argument of CallClientFunction.  The send blocks
\* while the channel is full and panics on a closed channel.
readSend(c) ==
    /\ ~crashed
    /\ conn[c].pc = "resend"
    /\ LET o == conn[c].to
           raw == conn[c].msg
           relay == conn[c].relay
       IN IF conn[o].closed
          THEN /\ dispatched' = Append(dispatched, Logged("socket", raw, conn[c].id, relay,
                                    [outcome |-> "panic", msg |-> "send on closed channel",
                                     method |-> "", in |-> <<>>]))
               /\ fault' = "send on closed channel"
               /\ conn' = [conn EXCEPT ![c].pc = "disc1", ![c].to = NilConn,
                                       ![c].msg = BadJSON, ![c].relay = NilRelay]
               /\ UNCHANGED nextSeq
          ELSE /\ Len(conn[o].out) < MaxQueue
               /\ dispatched' = Append(dispatched, Logged("socket", raw, conn[c].id, relay,
                                                          Outcome("sent")))
               /\ conn' = [conn EXCEPT ![o].enq = @ + 1,
                                       ![o].out = Append(@,
                                           [env |-> encode(relay, raw.M,
                                                           <<JSONArray(raw.A)>>),
                                            n |-> conn[o].enq + 1]),
                                       ![c].pc = "open", ![c].to = NilConn,
                                       ![c].msg = BadJSON, ![c].relay = NilRelay]
               /\ nextSeq' = nextSeq + 1
               /\ UNCHANGED fault
    /\ UNCHANGED <<verbosity, relays, groups, heap, transportOf, mapLock, nextId,
                   connections, listen, task, crashed>>

(* ------------------------------ start --------------------------------- *)
\* NewExchange(mainURL, verbosity) with a verbosity of vs, and the relays the
\* application registers at start-up
InitWith(rs, vs) ==
    /\ verbosity \in vs
    /\ relays = rs
    /\ groups = EmptyMap
    /\ heap = [a \in ArrIds |-> <<>>]
    /\ transportOf = [c \in ClientIDs |-> "none"]
    /\ mapLock = 0
    /\ nextId = 1
    /\ connections = [id \in ConnectionIDs |-> NilConn]
    /\ conn = [c \in Conns |-> NoConn]
    /\ listen = IdleListen
    /\ task = [t \in Tasks |-> IdleTask]
    /\ dispatched = <<>>
    /\ nextSeq = 1
    /\ fault = "none"
    /\ crashed = FALSE

\* the log levels: quiet, and logging (every e.verbosity > 0 branch taken)
Quiet == {0}
Verbosities == {0, 1}

Init == InitWith(<<>>, Quiet)

\* the relay the application registers
Chat == Definition(CHOOSE x \in RelayTypes : TRUE)

\* the hub once the application has registered its relay
Serving == InitWith(<<Chat>>, Quiet)
\* the same with any log level
ServingAnyVerbosity == InitWith(<<Chat>>, Verbosities)

\* the hub serving, once MaxClients clients have negotiated the websocket
\* transport one after the other: "Global" holds their records in an array
\* grown to that length
JoinedWith(vs) ==
    /\ verbosity \in vs
    /\ relays = <<Chat>>
    /\ groups = store(EmptyMap, "Global", [arr |-> 1, len |-> MaxClients])
    /\ heap = [a \in ArrIds |-> IF a = 1 THEN [k \in 1..MaxClients |-> k] ELSE <<>>]
    /\ transportOf = [c \in ClientIDs |-> "websocket"]
    /\ mapLock = 0
    /\ nextId = MaxClients + 1
    /\ connections = [id \in ConnectionIDs |-> NilConn]
    /\ conn = [c \in Conns |-> NoConn]
    /\ listen = IdleListen
    /\ task = [t \in Tasks |-> IdleTask]
    /\ dispatched = <<>>
    /\ nextSeq = 1
    /\ fault = "none"
    /\ crashed = FALSE

Joined == JoinedWith(Quiet)
\* the same with any log level
JoinedAnyVerbosity == JoinedWith(Verbosities)

(* --------------------------- specifications --------------------------- *)
\* the application registers its relays before the hub serves: no peer has
\* connected and no call has come in
Startup == dispatched = <<>> /\ \A c \in Conns : conn[c].pc = "none"

\* Inbound calls: relays are registered, peers connect and send envelopes
\* over the socket and over HTTP.  The write duties are not scheduled.
NextDispatch ==
    \/ \E x \in RelayTypes : Startup /\ RegisterRelay(x)
    \/ \E c \in Conns, id \in KnownIDs : upgradeWebSocket(c, id, FALSE)
    \/ listenInsert
    \/ \E raw \in Requests, cid \in KnownIDs : callServer(raw, cid)
    \/ \E k \in 1..MaxDispatch : callServerGo(k)
    \/ \E c \in Conns, raw \in Inbound : readMessage(c, raw)
    \/ \E c \in Conns : readCall(c)
    \/ \E c \in Conns : readSend(c)
    \/ \E c \in Conns : readError(c)
    \/ \E c \in Conns : disconnected(c, FALSE)
    \/ removeFromAllGroupsEnd
    \/ listenDelete
    \/ listenClose

SpecDispatch == Init /\ [][NextDispatch]_vars

\* Serial callers: one operation at a time, none while the event loop is in
\* a cleanup.  Negotiations, group changes on any group and any id, and
\* calls to groups, with and without logging.
NextGroups ==
    \/ negotiateConnection(1, "websocket", TRUE)
    \/ addClientRead(1)
    \/ addClient(1)
    \/ addClientStore(1)
    \/ negotiateUnlock(1)
    \/ \E g \in GroupNames, id \in KnownIDs : addToGroup(1, g, id, TRUE)
    \/ getClientIndexInGroup(1)
    \/ addToGroupRead(1)
    \/ addToGroupLookup(1)
    \/ getClientByConnectionID(1)
    \/ addToGroupAppend(1)
    \/ addToGroupStore(1)
    \/ addToGroupLog(1)
    \/ addToGroupLogNext(1)
    \/ \E g \in GroupNames, id \in KnownIDs : removeFromGroupByID(1, g, id, TRUE)
    \/ removeFromGroupHeader(1)
    \/ removeFromGroupNil(1)
    \/ removeFromGroupShift(1)
    \/ removeFromGroupStore(1)
    \/ removeFromGroupLen(1)
    \/ removeFromGroupDrop(1)
    \/ \E g \in GroupNames : callGroupMethod(1, g, TRUE)
    \/ \E g \in GroupNames : callGroupLog(1, g)
    \/ callGroupLogEnd(1)
    \/ callGroupRange(1)
    \/ callGroupNext(1)
    \/ callClientMethod(1, EmptyID, TRUE)
    \/ CallClientFunctionRead(1)
    \/ Return(1)

SpecGroups == ServingAnyVerbosity /\ [][NextGroups]_vars

\* Serial callers: clients negotiate with any transport preference, connect,
\* join groups, and the server calls groups through a handle.
NextCall ==
    \/ \E pref \in TransportPrefs : negotiateConnection(1, pref, TRUE)
    \/ addClientRead(1)
    \/ addClient(1)
    \/ addClientStore(1)
    \/ negotiateUnlock(1)
    \/ \E g \in GroupNames, id \in KnownIDs : addToGroup(1, g, id, TRUE)
    \/ getClientIndexInGroup(1)
    \/ addToGroupRead(1)
    \/ addToGroupLookup(1)
    \/ getClientByConnectionID(1)
    \/ addToGroupAppend(1)
    \/ addToGroupStore(1)
    \/ \E g \in GroupNames : callGroupMethod(1, g, TRUE)
    \/ callGroupRange(1)
    \/ callGroupNext(1)
    \/ \E g \in GroupNames, id \in Issued : callGroupMethodExcept(1, g, id, TRUE)
    \/ callGroupExceptNext(1)
    \/ \E id \in HandleIDs : callClientMethod(1, id, TRUE)
    \/ CallClientFunctionRead(1)
    \/ Send(1)
    \/ Return(1)
    \/ \E c \in Conns, id \in Issued : upgradeWebSocket(c, id, TRUE)
    \/ listenInsert
    \/ \E c \in Conns : write(c)
    \/ \E c \in Conns : writeMessage(c)

SpecCall == Serving /\ [][NextCall]_vars

\* Concurrent callers of the registry, the clients having negotiated: task 1
\* broadcasts to a group, task 2 removes client 1 from it, both add to it;
\* every step of one may fall between two steps of the other.
NextRace ==
    \/ \E t \in Tasks, id \in Issued : addToGroup(t, "room1", id, FALSE)
    \/ \E t \in Tasks : getClientIndexInGroup(t)
    \/ \E t \in Tasks : addToGroupRead(t)
    \/ \E t \in Tasks : addToGroupLookup(t)
    \/ \E t \in Tasks : getClientByConnectionID(t)
    \/ \E t \in Tasks : addToGroupAppend(t)
    \/ \E t \in Tasks : addToGroupStore(t)
    \/ \E t \in Tasks : addToGroupLog(t)
    \/ \E t \in Tasks : addToGroupLogNext(t)
    \/ removeFromGroupByID(2, "room1", 1, FALSE)
    \/ removeFromGroupHeader(2)
    \/ removeFromGroupNil(2)
    \/ removeFromGroupShift(2)
    \/ removeFromGroupStore(2)
    \/ removeFromGroupLen(2)
    \/ removeFromGroupDrop(2)
    \/ callGroupMethod(1, "room1", FALSE)
    \/ \E g \in GroupNames : callGroupLog(1, g)
    \/ callGroupLogEnd(1)
    \/ callGroupRange(1)
    \/ callGroupNext(1)
    \/ CallClientFunctionRead(1)
    \/ \E t \in Tasks : Return(t)

SpecRace == JoinedAnyVerbosity /\ [][NextRace]_vars

\* Connections: a task negotiates and calls single clients while peers
\* connect, fail and are cleaned up by the event loop.  The write duties are
\* not scheduled.
NextConn ==
    \/ negotiateConnection(1, "websocket", FALSE)
    \/ addClientRead(1)
    \/ addClient(1)
    \/ addClientStore(1)
    \/ negotiateUnlock(1)
    \/ \E id \in Issued : callClientMethod(1, id, FALSE)
    \/ getClientByConnectionID(1)
    \/ CallClientFunctionRead(1)
    \/ Send(1)
    \/ Return(1)
    \/ \E c \in Conns, id \in Issued : upgradeWebSocket(c, id, FALSE)
    \/ listenInsert
    \/ \E c \in Conns : readError(c)
    \/ \E c \in Conns : disconnected(c, FALSE)
    \/ \E g \in GroupNames : removeFromAllGroups(g)
    \/ removeFromAllGroupsEnd
    \/ listenRemove
    \/ getClientIndexInGroup(Loop)
    \/ removeFromGroupHeader(Loop)
    \/ removeFromGroupNil(Loop)
    \/ removeFromGroupShift(Loop)
    \/ removeFromGroupStore(Loop)
    \/ removeFromGroupLen(Loop)
    \/ removeFromGroupDrop(Loop)
    \/ listenDelete
    \/ listenClose

SpecConn == Serving /\ [][NextConn]_vars

\* the envelopes a peer sends for re-delivery to the connection of client 1
Redeliveries ==
    {raw \in Inbound : raw.ok /\ ~raw.S /\ raw.R = "Chat" /\ Len(raw.A) = 1 /\ raw.C = 1}

\* a read duty has taken a message to re-deliver
Redelivering == dispatched # <<>> \/ Reading # {}

\* Outbound queues, the clients having negotiated: client 1 connects, task 1
\* calls it, and beside task 1 either task 2 calls it or the read duty
\* re-delivers envelopes to it, so that two goroutines enqueue for one
\* connection, while its write duty drains the queue, its keep-alive pings,
\* and the connection fails and is cleaned up.
NextWrite ==
    \/ upgradeWebSocket(1, 1, FALSE)
    \/ listenInsert
    \/ \E t \in Tasks : (t = 1 \/ ~Redelivering) /\ callClientMethod(t, 1, FALSE)
    \/ \E t \in Tasks : getClientByConnectionID(t)
    \/ \E t \in Tasks : CallClientFunctionRead(t)
    \/ \E t \in Tasks : Send(t)
    \/ \E t \in Tasks : Return(t)
    \/ \E c \in Conns, raw \in Redeliveries :
          (\A t \in Tasks \ {1} : task[t] = IdleTask) /\ readMessage(c, raw)
    \/ \E c \in Conns : readCall(c)
    \/ \E c \in Conns : readSend(c)
    \/ \E c \in Conns : write(c)
    \/ \E c \in Conns : writeMessage(c)
    \/ \E c \in Conns : writeError(c)
    \/ \E c \in Conns : writeExit(c)
    \/ \E c \in Conns : writeClose(c)
    \/ \E c \in Conns : keepAlive(c)
    \/ \E c \in Conns : keepAliveError(c)
    \/ \E c \in Conns : keepAliveClose(c)
    \/ \E c \in Conns : readError(c)
    \/ \E c \in Conns : disconnected(c, FALSE)
    \/ \E g \in GroupNames : removeFromAllGroups(g)
    \/ removeFromAllGroupsEnd
    \/ listenRemove
    \/ getClientIndexInGroup(Loop)
    \/ removeFromGroupHeader(Loop)
    \/ removeFromGroupNil(Loop)
    \/ removeFromGroupShift(Loop)
    \/ removeFromGroupStore(Loop)
    \/ removeFromGroupLen(Loop)
    \/ listenDelete
    \/ listenClose

SpecWrite == Joined /\ [][NextWrite]_vars

(* ------------------------------- claims ------------------------------- *)
\* a relay of this name is registered
Registered(name) == \E k \in 1..Len(relays) : relays[k].Name = name

\* the call of entry k of the dispatch log has ended: it is not one whose
\* goroutine has yet to run
Ended(k) == dispatched[k].outcome # "started"

\* C1: dispatch invokes a relay method only if its name is in the method set
\* recorded for the relay at registration.
C1_DispatchOnlyRegistered ==
    \A k \in 1..Len(dispatched) :
        dispatched[k].outcome = "invoked"
            => dispatched[k].method \in RegisteredMethods(dispatched[k].raw.R)

\* C2: an inbound call (a decoded envelope, on either path) that names an
\* unregistered relay ends in UnknownRelay: nothing panics, the hub is in no
\* fault state.
C2_UnknownRelayFails ==
    \A k \in 1..Len(dispatched) :
        (/\ Ended(k)
         /\ dispatched[k].raw.ok
         /\ ~Registered(dispatched[k].raw.R))
            => /\ dispatched[k].outcome = "UnknownRelay"
               /\ fault = "none"
               /\ ~crashed

\* C3: under every interleaving of deliveries with the event loop, no send
\* is attempted on an outbound queue that has been closed, and so no
\* disconnection puts the hub into a fault state.
C3_NoSendOnClosedQueue == fault # "send on closed channel"

\* how many times a value occurs in a sequence
Count(seq, x) == Cardinality({k \in 1..Len(seq) : seq[k] = x})

\* C4: a broadcast works on a snapshot of the membership.  When it ends over
\* a group that held each member once when it started, every client that was
\* a member of the group throughout has been delivered to exactly once, for
\* any concurrent removal.
C4_BroadcastSnapshot ==
    \A t \in Tasks :
        (/\ task[t].op = "callGroup"
         /\ task[t].pc = "done"
         /\ task[t].k = Cardinality(task[t].members0))
            => \A id \in task[t].stayed : Count(task[t].called, id) = 1

\* C7: in every reachable state with no registry operation in progress, no
\* group holds the same connection id more than once.
C7_NoDuplicateMember ==
    ~Busy =>
        \A g \in DOMAIN groups : \A id \in ClientIDs :
            Count(Elems(heap, groups[g]), id) <= 1

\* the connections made under an id
ConnsOf(id) == {c \in Conns : conn[c].pc # "none" /\ conn[c].id = id}

\* the disconnection of a connection under this id has been processed: the
\* event loop has received its disconnected event and is through with it
Processed(id) ==
    \E c \in ConnsOf(id) :
        /\ conn[c].pc \in {"disc2", "done"}
        /\ ~(listen.pc # "idle" /\ listen.c = c)

\* C6: with no registry operation in progress, for every connection id
\* negotiate has returned, "Global" holds exactly one record of that id as
\* long as no connection under the id has failed; once its disconnection has
\* been processed, no group holds a record of it.
C6_OneRecordUntilDisconnect ==
    ~Busy =>
        \A id \in Issued :
            /\ (\A c \in ConnsOf(id) : conn[c].pc = "open")
                  => Count(Elems(heap, Lookup(groups, "Global")), id) = 1
            /\ Processed(id)
                  => \A g \in DOMAIN groups : Count(Elems(heap, groups[g]), id) = 0

\* a connection is through: it failed, both of its disconnected events have
\* been received by the event loop, and the loop is through with them
Through(c) ==
    /\ conn[c].pc = "done"
    /\ ~(listen.pc # "idle" /\ listen.c = c)

\* C9: a connection that was open and failed ends CLOSED: once its
\* disconnected events have been processed and no registry operation is in
\* progress, it is not in the connection table, its id is in no group and
\* its outbound queue is closed.  (When the
\* connection is through nothing more happens to it, so a state where this
\* fails is one it never leaves.)
C9_FailedConnectionClosed ==
    \A c \in Conns :
        (Through(c) /\ ~Busy)
            => /\ conn[c].closed
               /\ connections[conn[c].id] # c
               /\ \A g \in DOMAIN groups :
                      Count(Elems(heap, groups[g]), conn[c].id) = 0

\* the connection ids of the connections a broadcast has enqueued for
SentIDs(t) == [k \in 1..Len(task[t].sent) |-> conn[task[t].sent[k]].id]

\* C5: a call to a group made while no membership change is in progress
\* has, when it ends, enqueued exactly one envelope for each member of the
\* group whose connection is open and none for any other connection.
C5_GroupCallDelivers ==
    \A t \in Tasks :
        (task[t].op = "callGroup" /\ task[t].pc \in {"done", "panic"})
            => \A id \in ClientIDs :
                  Count(SentIDs(t), id) =
                      IF id \in task[t].members0 \cap task[t].open0 THEN 1 ELSE 0

\* the membership of a group after the step
MembersNext(g) == Members(groups', heap', g)

\* an addToGroup or removeFromGroup of task t on a negotiated id returns
Returns(t, op) ==
    /\ task[t].pc # "done"
    /\ task'[t].pc = "done"
    /\ task'[t].op = op
    /\ task'[t].id \in Issued

\* C8: the registry refines a set model.  Every addToGroup(g, id) on a
\* negotiated id leaves the membership of g as it was with id inserted,
\* every removeFromGroup(g, id) as it was with id deleted, and neither
\* changes any other group.
C8_RefinesSetModel ==
    [][\A t \in Tasks :
          /\ Returns(t, "addToGroup") =>
                \A g \in GroupNames :
                    MembersNext(g) = IF g = task'[t].g
                                     THEN Members(groups, heap, g) \cup {task'[t].id}
                                     ELSE Members(groups, heap, g)
          /\ Returns(t, "removeFromGroup") =>
                \A g \in GroupNames :
                    MembersNext(g) = IF g = task'[t].g
                                     THEN Members(groups, heap, g) \ {task'[t].id}
                                     ELSE Members(groups, heap, g)]_vars

\* the envelopes among the frames written to a socket, by their ranks
Envelopes(w) == SelectSeq(w, LAMBDA x : x # Ping)

\* the envelopes of connection c that have left its queue, in the order in
\* which they left it: those written, then the one its write duty holds
Taken(c) ==
    Envelopes(conn[c].written) \o (IF conn[c].cur = 0 THEN <<>> ELSE <<conn[c].cur>>)

\* a message leaves the queue of connection c in this step
Received(c) == Len(conn'[c].out) < Len(conn[c].out)

\* C10: the envelopes enqueued for one connection are written to its socket
\* in enqueue order, and each queue has a single consumer.  Each envelope
\* carries its rank in the enqueue order of its connection.  In every state
\* the ranks of the envelopes written so far increase, the envelope the
\* write duty holds was enqueued after all of them and before all that are
\* queued, and the queue holds the envelopes enqueued last in their order.
\* In every step a message leaves a queue only from its head and into the
\* hands of that connection's write duty, which was holding none.
C10_WrittenInEnqueueOrder ==
    /\ [](\A c \in Conns :
            LET x == Taken(c)
                q == conn[c].out
            IN /\ \A i, j \in 1..Len(x) : i < j => x[i] < x[j]
               /\ \A k \in 1..Len(q) : q[k].n = conn[c].enq - Len(q) + k
               /\ \A i \in 1..Len(x), k \in 1..Len(q) : x[i] < q[k].n)
    /\ [][\A c \in Conns :
            Received(c) => /\ conn[c].wr = "run" /\ conn[c].cur = 0
                           /\ conn'[c].wr = "writing"
                           /\ conn'[c].cur = Head(conn[c].out).n
                           /\ conn'[c].out = Tail(conn[c].out)]_vars

\* both tasks have enqueued an envelope for one connection, the two have
\* been written to its socket, and so has a ping of its keep-alive
C10_TwoWritten ==
    \E c \in Conns :
        /\ Len(Envelopes(conn[c].written)) >= 2
        /\ \E i \in 1..Len(conn[c].written) : conn[c].written[i] = Ping
        /\ \A t \in Tasks : task[t].pc = "done" /\ task[t].sent = <<c>>

\* task t is inside an operation that reads or writes group membership
Accessing(t) ==
    /\ task[t].op \in {"negotiate", "addToGroup", "removeFromGroup", "callGroup",
                       "callGroupExcept", "callClient"}
    /\ task[t].pc \notin {"idle", "done", "panic"}

\* the event loop is inside removeFromAllGroups, which takes no lock
LoopAccessing ==
    listen.pc \in {"range", "groups", "enter", "idxcell", "header", "nil", "shift",
                   "store", "len", "drop"}

\* C11: every read and write of group membership is made under the
\* registry's mutex: a task inside such an operation holds e.mapLock, no
\* two tasks are inside such operations at the same time, and the event loop
\* (which holds no mutex) is not inside one.
C11_MembershipUnderLock ==
    /\ \A t \in Tasks : Accessing(t) => mapLock = t
    /\ Cardinality({t \in Tasks : Accessing(t)}) <= 1
    /\ ~LoopAccessing

\* a goroutine other than the event loop reads the connection table in this
\* step: a caller's CallClientFunction, or a read loop's in a re-delivery
TableRead ==
    \/ \E t \in Tasks : task[t].pc = "table" /\ task'[t].pc # "table"
    \/ \E c \in Conns :
          /\ conn[c].pc = "call" /\ ~conn[c].msg.S /\ ~conn[c].relay.nil
          /\ \/ conn'[c].pc # "call"
             \/ /\ Len(dispatched') > Len(dispatched)
                /\ dispatched'[Len(dispatched')].outcome = "fatal"

\* C12: only the event loop touches the connection table while it is being
\* written: no other goroutine reads the table while the event loop is
\* inside its insert or its delete.
C12_TableOwnedByEventLoop == [][TableRead => ~TableRace]_vars

\* a client-method call of task t through a handle has ended
Called(t) == task[t].op = "callClient" /\ task[t].pc \in {"done", "panic"}

\* C13: a client-method call through a handle without connection id has,
\* when it ends, enqueued one envelope for every member of "Global" with an
\* open connection; a call through a handle bound to a client's connection
\* id one envelope for that connection, if open, and none for any other.
C13_HandleCallTargets ==
    \A t \in Tasks :
        (Called(t) /\ task[t].id \in ClientIDs \cup {EmptyID})
            => \A id \in ClientIDs :
                  Count(SentIDs(t), id) =
                      IF /\ id \in task[t].members0 \cap task[t].open0
                         /\ task[t].id \in {EmptyID, id}
                      THEN 1 ELSE 0

\* C14: a client-method call through a handle made by Exchange.Relay has,
\* when it ends, enqueued one envelope for every member of "Global" with an
\* open connection.
C14_RelayHandleBroadcasts ==
    \A t \in Tasks :
        (Called(t) /\ task[t].id = RelayID)
            => \A id \in task[t].members0 \cap task[t].open0 :
                  Count(SentIDs(t), id) = 1

\* C15: a group call of "all except the caller" through a handle bound to
\* connection id c has, when it ends, enqueued one envelope for every member
\* of the group other than c that has an open connection, and none for c or
\* for anyone else.
C15_ExceptSkipsOnlyCaller ==
    \A t \in Tasks :
        (task[t].op = "callGroupExcept" /\ task[t].pc \in {"done", "panic"})
            => \A id \in ClientIDs :
                  Count(SentIDs(t), id) =
                      IF id \in task[t].members0 \cap task[t].open0 /\ id # task[t].id
                      THEN 1 ELSE 0

\* the client records: addClient's entries of "Global"
ClientRecords == Members(groups, heap, "Global")

\* C16: a socket connect binds a connection only to a connection id that
\* has a client record at that moment.
C16_ConnectNeedsClientRecord ==
    [][\A c \in Conns :
          (conn[c].pc = "none" /\ conn'[c].pc = "open")
              => conn'[c].id \in ClientRecords]_vars

\* C17: the names of the registered relays are pairwise distinct.
C17_RelayNamesDistinct ==
    \A i, j \in 1..Len(relays) : i # j => relays[i].Name # relays[j].Name

\* C19: an inbound message that does not decode is dropped on either path:
\* no relay method is looked up or invoked for it and nothing fails.
C19_MalformedDropped ==
    \A i \in 1..Len(dispatched) :
        (Ended(i) /\ ~dispatched[i].raw.ok) => dispatched[i].outcome = "dropped"

\* C18: with no group operation in progress, every group of the registry
\* has at least one member.
C18_NoEmptyGroup ==
    (\A t \in Tasks : task[t].pc \in {"idle", "done"})
        => \A g \in DOMAIN groups : Members(groups, heap, g) # {}

\* C20: no connection's outbound queue is closed twice.
C20_QueueClosedOnce == fault # "close of closed channel"

\* connection c's read loop has re-delivered a non-server envelope in this
\* step
Redelivered(c) ==
    /\ conn[c].pc = "resend"
    /\ conn'[c].pc = "open"

\* C21: the envelope the read loop enqueues for the target connection when
\* it re-delivers a non-server envelope has the relay name, the method name
\* and the argument sequence of the inbound envelope.
C21_RedeliveryKeepsEnvelope ==
    [][\A c \in Conns :
          Redelivered(c) =>
              LET raw == conn[c].msg
                  out == conn'[conn[c].to].out
              IN out[Len(out)].env = [R |-> raw.R, M |-> raw.M, A |-> raw.A]]_vars

\* C22: with no group operation in progress, every entry of every group is
\* a client record (not nil) whose connection id is in "Global".
C22_EntriesAreClientRecords ==
    (\A t \in Tasks : task[t].pc \in {"idle", "done"})
        => \A g \in DOMAIN groups :
              \A k \in 1..groups[g].len :
                  /\ heap[groups[g].arr][k] # NilClient
                  /\ heap[groups[g].arr][k] \in ClientRecords

\* C23: every client record is bound to a registered transport, whatever
\* transport preference the peer sent to negotiate.
C23_RecordHasTransport ==
    \A id \in ClientRecords : transportOf[id] \in {"websocket", "longpoll"}

=============================================================================
